---- MODULE Spec2Model ----
(***************************************************************************)
(* State-machine model of VoiceCloningEngine (src/voice_cloning_engine.py). *)
(* One engine instance serves one call at a time; a call to clone_voice is  *)
(* followed statement by statement (pc), every other public operation is    *)
(* one step.  Waveforms are symbolic: a waveform is the sequence of         *)
(* signal-processing operations applied to the loaded base audio, held in a *)
(* numbered buffer of the heap so that in-place updates of a numpy array    *)
(* are visible through every reference to that buffer.                      *)
(***************************************************************************)
EXTENDS Integers, Sequences, FiniteSets, TLC

\* ------------------------------------------------------------------ bounds
\* Number of public-operation calls followed in one behaviour.
MaxCalls == 3

\* Number of threads that call clone_voice on the one engine.
MaxThreads == 2

Threads == 1..MaxThreads

\* ------------------------------------------------------------- input space
NoneVal == "None"

\* Reference audio identifiers a caller may supply.
Paths == {"voiceA", "voiceB", "silence"}

\* Text arguments: Python None, or a str given as its characters.
Strings == { <<>>, <<" ", " ">>, <<"h", "i">>, <<" ", "h", "i", " ">> }
TextArgs == {[isNone |-> TRUE, s |-> <<>>]} \cup {[isNone |-> FALSE, s |-> t] : t \in Strings}

\* What the decoded base audio is like: speech with voiced frames, noise
\* without voiced frames, or all-zero samples.
BaseKinds == {"voiced", "unvoiced", "silent"}

\* ----------------------------------------------------------- pure helpers
IsSpace(c) == c = " "

RECURSIVE LStrip(_)
LStrip(s) == IF s # <<>> /\ IsSpace(Head(s)) THEN LStrip(Tail(s)) ELSE s

RECURSIVE RStrip(_)
RStrip(s) == IF s # <<>> /\ IsSpace(s[Len(s)]) THEN RStrip(SubSeq(s, 1, Len(s) - 1)) ELSE s

\* A mutant of Strip: no stripping at all, as in `if not text:`.
StripNothing(s) == s

\* str.strip()
Strip(s) == RStrip(LStrip(s))

\* The feature dictionary extract_voice_features builds for a reference: the
\* audio it came from and, for each feature a stage reads, whether it is a
\* positive number (f0_mean is NaN when pyin finds no voiced frame; centroid and
\* energy are 0 and no spectral peak exists for all-zero audio).
ExtractFeatures(path) ==
    [src          |-> path,
     f0_defined   |-> path # "silence",
     centroid_pos |-> path # "silence",
     energy_pos   |-> path # "silence",
     formants_pos |-> path # "silence"]

\* Python None where a feature dictionary is expected.
NoFeatures ==
    [src          |-> NoneVal,
     f0_defined   |-> FALSE,
     centroid_pos |-> FALSE,
     energy_pos   |-> FALSE,
     formants_pos |-> FALSE]

\* A mutant of NeedsLoad: the cached path is never found equal.
NeedsLoadAlways(features, last, path) == TRUE

\* A mutant of NeedsLoad: the reference path is not compared.
NeedsLoadIgnoresPath(features, last, path) == features = NoFeatures

\* clone_voice line 339: reload unless features are cached for this very path.
NeedsLoad(features, last, path) == features = NoFeatures \/ path # last

\* ------------------------------------------------------------------- state
VARIABLES
    reference_features,   \* self.reference_features: NoFeatures (None) or a feature dictionary
    reference_audio,      \* self.reference_audio: NoneVal or the path whose samples are cached
    last_reference_path,  \* self.last_reference_path: NoneVal (attribute unset) or a path
    pyttsx3_engine,       \* TRUE iff pyttsx3.init() succeeded in __init__
    calls,                \* calls started so far
    pc,                   \* position of the running call, "idle" between calls
    op,                   \* the operation of the running (or last finished) call
    text,                 \* clone_voice argument
    refPath,              \* reference path argument
    result,               \* "pending", "output" (a path is returned), "None", "True",
                          \* "False", "score" or "0.0" (the similarity returned), or
                          \* "raised" (an exception left the call)
    error,                \* the st.error message of the call, "none" if none
    fs,                   \* temp files created by this call that exist: name -> contents
    baseKind,             \* what the decoded base audio is like
    heap,                 \* waveform buffers of this call: buffer number -> operations applied
    cur,                  \* the buffer the local variable base_audio refers to (0: unbound)
    target,               \* target_features given to apply_voice_transformation
    trace,                \* the stages run by this call, in order, with input and output
    nExtract,             \* extract_voice_features calls made by this call
    nSynth,               \* synthesize_base_speech calls made by this call
    nEngine,              \* pyttsx3 save_to_file/runAndWait runs made by this call
    synthOutcome,         \* what the base synthesizer did in this call
    ioFailed,             \* TRUE iff decoding the base file twice, or creating or writing the output, failed
    decode,               \* decoding of the base file: "none", "ok", "retry" (the except
                          \* clause is decoding again), "retry_ok" or "failed"
    baseMade,             \* TRUE iff this call created a base temp file
    outMade,              \* TRUE iff this call created an output temp file
    entryFeatures,        \* reference_features when the call started
    entryLast,            \* last_reference_path when the call started
    entryAudio,           \* reference_audio when the call started
    loaded,               \* TRUE iff this call got a reference loaded (or found it cached)
    prev,                 \* op, path and loaded of the previous call
    extracted,            \* TRUE iff the last extraction of this call gave features
    fn,                   \* the function applied on its own ("none": none yet)
    args,                 \* its arguments
    out,                  \* what it returned
    tpc,                  \* concurrent callers: thread -> position in its clone_voice
    tRefPath,             \* thread -> its reference_audio_path argument
    tFeatures,            \* thread -> the local `features` of its load_reference_voice
    tTarget,              \* thread -> the features its transformation was given
    tResult,              \* thread -> "pending", "output" or "None"
    overlapped,           \* TRUE iff a clone_voice started while another was running
    recording,            \* VoiceRecorder.recording
    audio_frames,         \* VoiceRecorder.audio_frames
    audio_queue,          \* VoiceRecorder.audio_queue: the frames in it, each marked with
                          \* the number of the recording it was captured in
    recordings,           \* start_recording calls made so far
    frames,               \* frames delivered to audio_frame_callback so far
    cpc,                  \* position of audio_frame_callback: "idle" or "put"
    cframe,               \* the frame audio_frame_callback is about to put
    mpc,                  \* position of the script thread: "idle" or "drain"
    audio_data,           \* the local list of stop_recording
    returned,             \* what the last stop_recording returned (<<>>: None)
    rop                   \* the recorder operation finished last: "none", "start", "stop"

engineVars == <<reference_features, reference_audio, last_reference_path, pyttsx3_engine>>
callVars == <<calls, op, text, refPath, entryFeatures, entryLast, entryAudio, prev>>
waveVars == <<baseKind, heap, cur, target, trace>>
countVars == <<nExtract, nSynth, nEngine, synthOutcome>>
fileVars == <<fs, ioFailed, decode, baseMade, outMade>>
pureVars == <<fn, args, out>>
threadVars == <<tpc, tRefPath, tFeatures, tTarget, tResult, overlapped>>
recorderVars == <<recording, audio_frames, audio_queue, recordings, frames, cpc, cframe,
                  mpc, audio_data, returned, rop>>
asideVars == <<pureVars, threadVars, recorderVars>>
engineState == <<engineVars, callVars, waveVars, countVars, fileVars, pc, result, error,
                 loaded, extracted>>
vars == <<engineState, pureVars, threadVars, recorderVars>>

File(d, w) == [data |-> d, wave |-> w]

NoFiles == [f \in {} |-> File("empty", <<>>)]

\* __init__ (lines 15-20): nothing cached; init_tts_engine may fail and leave
\* pyttsx3_engine None.
Init ==
    /\ reference_features = NoFeatures
    /\ reference_audio = NoneVal
    /\ last_reference_path = NoneVal
    /\ pyttsx3_engine \in BOOLEAN
    /\ calls = 0
    /\ pc = "idle"
    /\ op = "none"
    /\ text = [isNone |-> FALSE, s |-> <<>>]
    /\ refPath = NoneVal
    /\ result = "pending"
    /\ error = "none"
    /\ fs = NoFiles
    /\ baseKind = "voiced"
    /\ heap = <<>>
    /\ cur = 0
    /\ target = NoFeatures
    /\ trace = <<>>
    /\ nExtract = 0
    /\ nSynth = 0
    /\ nEngine = 0
    /\ synthOutcome = "none"
    /\ ioFailed = FALSE
    /\ decode = "none"
    /\ baseMade = FALSE
    /\ outMade = FALSE
    /\ entryFeatures = NoFeatures
    /\ entryLast = NoneVal
    /\ entryAudio = NoneVal
    /\ loaded = FALSE
    /\ prev = [op |-> "none", path |-> NoneVal, loaded |-> FALSE]
    /\ extracted = FALSE
    /\ fn = "none"
    /\ args = <<>>
    /\ out = <<>>
    /\ tpc = [t \in Threads |-> "idle"]
    /\ tRefPath = [t \in Threads |-> NoneVal]
    /\ tFeatures = [t \in Threads |-> NoFeatures]
    /\ tTarget = [t \in Threads |-> NoFeatures]
    /\ tResult = [t \in Threads |-> "pending"]
    /\ overlapped = FALSE
    /\ recording = FALSE
    /\ audio_frames = <<>>
    /\ audio_queue = <<>>
    /\ recordings = 0
    /\ frames = 0
    /\ cpc = "idle"
    /\ cframe = 0
    /\ mpc = "idle"
    /\ audio_data = <<>>
    /\ returned = <<>>
    /\ rop = "none"

\* A new call starts: the per-call bookkeeping is reset.
StartCall(o, t, p) ==
    /\ pc = "idle"
    /\ calls < MaxCalls
    /\ calls' = calls + 1
    /\ op' = o
    /\ text' = t
    /\ refPath' = p
    /\ prev' = [op |-> op, path |-> refPath, loaded |-> loaded]
    /\ entryFeatures' = reference_features
    /\ entryLast' = last_reference_path
    /\ entryAudio' = reference_audio
    /\ fs' = NoFiles
    /\ ioFailed' = FALSE
    /\ decode' = "none"
    /\ baseMade' = FALSE
    /\ outMade' = FALSE
    /\ baseKind' = "voiced"
    /\ heap' = <<>>
    /\ cur' = 0
    /\ target' = NoFeatures
    /\ trace' = <<>>
    /\ nSynth' = 0
    /\ nEngine' = 0
    /\ synthOutcome' = "none"
    /\ UNCHANGED asideVars

\* The call returns r, having reported e.
Return(r, e) ==
    /\ pc' = "idle"
    /\ result' = r
    /\ error' = e

\* ------------------------------------------------- load_reference_voice
\* extract_voice_features (lines 31-69): the features, or None when anything
\* in it raised (ok = FALSE).
extract_voice_features(path, ok) == IF ok THEN ExtractFeatures(path) ELSE NoFeatures

\* A mutant of StoredFeatures: the result is stored without `if features:`.
StoredFeaturesUnchecked(features, old) == features

\* load_reference_voice lines 102-105: self.reference_features afterwards.
StoredFeatures(features, old) == IF features # NoFeatures THEN features ELSE old

\* load_reference_voice lines 102-104: self.reference_audio afterwards, the
\* samples named by the path they were decoded from.
StoredAudio(features, path, old) == IF features # NoFeatures THEN path ELSE old

\* load_reference_voice lines 102-107: the value returned.
LoadSucceeded(features) == features # NoFeatures

\* load_reference_voice (lines 99-107) called by the user of the engine: it
\* always runs the extractor; on success the features are stored, and
\* last_reference_path is not touched.  Extraction fails when the audio cannot
\* be read or analysed (lines 67-69).
LoadReferenceVoice ==
    \E p \in Paths, ok \in BOOLEAN :
        /\ StartCall("load_reference_voice", [isNone |-> FALSE, s |-> <<>>], p)
        /\ nExtract' = 1
        /\ reference_features' = StoredFeatures(extract_voice_features(p, ok), reference_features)
        /\ reference_audio' = StoredAudio(extract_voice_features(p, ok), p, reference_audio)
        /\ loaded' = LoadSucceeded(extract_voice_features(p, ok))
        /\ extracted' = ok
        /\ IF LoadSucceeded(extract_voice_features(p, ok))
             THEN Return("True", "none")
             ELSE Return("False", "extract")
        /\ UNCHANGED <<last_reference_path, pyttsx3_engine>>

\* -------------------------------------------- get_voice_similarity_score
\* A mutant of FeaturesAfterScore: the reference features are extracted with
\* load_reference_voice, which stores them.
FeaturesAfterScoreStored(ref_features, old) == StoredFeatures(ref_features, old)

\* get_voice_similarity_score lines 428-429: the features are extracted into
\* local variables; self.reference_features afterwards.
FeaturesAfterScore(ref_features, old) == old

\* get_voice_similarity_score (lines 424-443) called by the user of the
\* engine: both audios are extracted, either of which may fail, and a
\* number is returned, 0.0 when an extraction failed.
ScoreVoices ==
    \E p \in Paths, okRef \in BOOLEAN, okCloned \in BOOLEAN :
        /\ StartCall("get_voice_similarity_score", [isNone |-> FALSE, s |-> <<>>], p)
        /\ nExtract' = 2
        /\ reference_features' =
               FeaturesAfterScore(extract_voice_features(p, okRef), reference_features)
        /\ loaded' = FALSE
        /\ extracted' = (okRef /\ okCloned)
        /\ IF okRef /\ okCloned
             THEN Return("score", "none")
             ELSE Return("0.0", "extract")
        /\ UNCHANGED <<reference_audio, last_reference_path, pyttsx3_engine>>

\* ----------------------------------------------------------- clone_voice
\* Lines 331-335: the emptiness check, made before the try block.  On None
\* text.strip() raises AttributeError, which nothing catches.
CloneVoice ==
    \E t \in TextArgs, p \in Paths :
        /\ StartCall("clone_voice", t, p)
        /\ nExtract' = 0
        /\ loaded' = FALSE
        /\ extracted' = FALSE
        /\ IF t.isNone
             THEN Return("raised", "none")
             ELSE IF Strip(t.s) = <<>>
                    THEN Return("None", "empty")
                    ELSE pc' = "cache" /\ result' = "pending" /\ error' = "none"
        /\ UNCHANGED engineVars

\* Line 339: is the reference already loaded?
CheckCache ==
    /\ pc = "cache"
    /\ IF NeedsLoad(reference_features, last_reference_path, refPath)
         THEN pc' = "load" /\ loaded' = FALSE
         ELSE pc' = "synth" /\ loaded' = TRUE
    /\ UNCHANGED <<engineVars, callVars, waveVars, countVars, fileVars, result, error,
                   extracted, asideVars>>

\* Lines 340-344 with load_reference_voice (99-107): extract; on failure
\* report and return None, on success store the features and then the path.
LoadReference ==
    /\ pc = "load"
    /\ nExtract' = nExtract + 1
    /\ \E ok \in BOOLEAN :
         /\ extracted' = ok
         /\ reference_features' =
                StoredFeatures(extract_voice_features(refPath, ok), reference_features)
         /\ reference_audio' =
                StoredAudio(extract_voice_features(refPath, ok), refPath, reference_audio)
         /\ IF LoadSucceeded(extract_voice_features(refPath, ok))
              THEN /\ last_reference_path' = refPath
                   /\ loaded' = TRUE
                   /\ pc' = "synth"
                   /\ UNCHANGED <<result, error>>
              ELSE /\ Return("None", "analyze")
                   /\ UNCHANGED <<last_reference_path, loaded>>
    /\ UNCHANGED <<pyttsx3_engine, callVars, waveVars, nSynth, nEngine, synthOutcome, fileVars,
                   asideVars>>

\* What pyttsx3 and the temp directory may do in synthesize_base_speech.
SynthOutcomes == {"tmp_raise", "engine_raise", "missing", "empty", "ok"}

SynthRaised(o) == o \in {"tmp_raise", "engine_raise"}

\* The base temp file after the synthesizer ran: none when it could not be
\* created (or is gone), empty when the engine wrote nothing.
BaseFileAfter(o) ==
    CASE o \in {"tmp_raise", "missing"} -> NoFiles
      [] o \in {"engine_raise", "empty"} -> [f \in {"base"} |-> File("empty", <<>>)]
      [] o = "ok" -> [f \in {"base"} |-> File("audio", <<>>)]

\* A mutant of SynthesizedPath: the size of the file is not looked at.
SynthesizedPathAnySize(raised, files) ==
    IF ~raised /\ "base" \in DOMAIN files THEN "base" ELSE NoneVal

\* Lines 121-127: the path, if the file exists and is not empty; else None.
SynthesizedPath(raised, files) ==
    IF ~raised /\ "base" \in DOMAIN files /\ files["base"].data # "empty"
      THEN "base"
      ELSE NoneVal

\* Lines 376-380 with synthesize_base_speech (109-127).
SynthesizeBaseSpeech ==
    /\ pc = "synth"
    /\ nSynth' = nSynth + 1
    /\ IF ~pyttsx3_engine
         THEN /\ synthOutcome' = "unavailable"
              /\ UNCHANGED <<fs, baseMade, nEngine>>
              /\ Return("None", "synthesize")
         ELSE \E o \in SynthOutcomes :
                /\ synthOutcome' = o
                /\ fs' = BaseFileAfter(o)
                /\ baseMade' = (o # "tmp_raise")
                /\ nEngine' = IF o = "tmp_raise" THEN nEngine ELSE nEngine + 1
                /\ IF SynthesizedPath(SynthRaised(o), BaseFileAfter(o)) = NoneVal
                     THEN Return("None", "synthesize")
                     ELSE pc' = "t_load" /\ UNCHANGED <<result, error>>
    /\ UNCHANGED <<engineVars, callVars, waveVars, nExtract, ioFailed, decode, outMade,
                   loaded, extracted, asideVars>>

\* ---------------------------------------------- the transformation stages
\* A stage is given the heap, the buffer of its input, the target features,
\* the kind of the base audio and the place where an exception is raised
\* inside it ("none": no exception).  It yields the heap it leaves, the
\* buffer it returns and whether it went through its except clause.
StageResult(h, b, e) == [heap |-> h, buf |-> b, exc |-> e]

\* A new array holding waveform w.
NewBuffer(h, w) == Append(h, w)

\* The result of applying operation o to the array in buffer b, as a new array.
Derived(h, b, o) == StageResult(NewBuffer(h, Append(h[b], o)), Len(h) + 1, FALSE)

PitchFaults == {"none", "raise"}

\* apply_pitch_transformation (lines 161-189)
ApplyPitchTransformation(h, b, tf, kind, fault) ==
    IF fault = "raise" THEN StageResult(h, b, TRUE)
    ELSE IF ~tf.f0_defined THEN StageResult(h, b, FALSE)
    ELSE IF kind # "voiced" THEN StageResult(h, b, FALSE)
    ELSE Derived(h, b, "pitch_shift")

SpectralFaults == {"none", "raise"}

\* modify_spectral_envelope (lines 298-329): the STFT is always inverted into
\* a new array; the magnitudes are reshaped when both centroids are positive.
ModifySpectralEnvelope(h, b, tf, kind, fault) ==
    IF fault = "raise" THEN StageResult(h, b, TRUE)
    ELSE IF kind # "silent" /\ tf.centroid_pos THEN Derived(h, b, "envelope")
    ELSE Derived(h, b, "istft")

FormantFaults == {"none", "raise"}

\* apply_formant_shifting (lines 191-216)
ApplyFormantShifting(h, b, tf, kind, fault) ==
    IF fault = "raise" THEN StageResult(h, b, TRUE)
    ELSE IF tf.formants_pos THEN Derived(h, b, "formant_emphasis")
    ELSE Derived(h, b, "istft")

TextureFaults == {"none", "raise"}

\* adjust_voice_texture (lines 218-244)
AdjustVoiceTexture(h, b, tf, kind, fault) ==
    IF fault = "raise" THEN StageResult(h, b, TRUE)
    ELSE IF kind # "silent" /\ tf.centroid_pos THEN Derived(h, b, "tilt")
    ELSE Derived(h, b, "istft")

DynamicsFaults == {"none", "raise_before_gain", "raise_after_gain"}

\* audio *= energy_ratio (line 256): the array itself is scaled.
GainInPlace(h, b, tf, kind) ==
    IF kind # "silent" /\ tf.energy_pos THEN [h EXCEPT ![b] = Append(@, "gain")] ELSE h

\* match_voice_dynamics (lines 246-267): the gain is applied to the input
\* array in place; the RMS normalisation (rms > 0 unless the audio is silent)
\* makes a new array.
MatchVoiceDynamics(h, b, tf, kind, fault) ==
    CASE fault = "raise_before_gain" -> StageResult(h, b, TRUE)
      [] fault = "raise_after_gain" -> StageResult(GainInPlace(h, b, tf, kind), b, TRUE)
      [] fault = "none" ->
           IF kind # "silent"
             THEN Derived(GainInPlace(h, b, tf, kind), b, "rms_norm")
             ELSE StageResult(GainInPlace(h, b, tf, kind), b, FALSE)

EnhanceFaults == {"none", "raise_in_filter", "raise_after_filter"}

\* enhance_voice_quality (lines 269-296): line 276 rebinds audio to the
\* filtered array, so the except clause returns whatever audio is bound to
\* when the exception is raised.  The peak is normalised when max_val > 0.
EnhanceVoiceQuality(h, b, kind, fault) ==
    LET filtered == Derived(h, b, "lowpass")
        compressed == Derived(filtered.heap, filtered.buf, "compress")
    IN  CASE fault = "raise_in_filter" -> StageResult(h, b, TRUE)
          [] fault = "raise_after_filter" -> StageResult(filtered.heap, filtered.buf, TRUE)
          [] fault = "none" ->
               IF kind # "silent"
                 THEN Derived(compressed.heap, compressed.buf, "peak_norm")
                 ELSE compressed

\* A mutant of StageAfter: spectral envelope and formant shifting swapped.
StageAfterSwapped(s) ==
    CASE s = "t_load" -> "pitch"
      [] s = "pitch" -> "formant"
      [] s = "formant" -> "spectral"
      [] s = "spectral" -> "texture"
      [] s = "texture" -> "dynamics"
      [] s = "dynamics" -> "enhance"
      [] s = "enhance" -> "save_tmp"

\* apply_voice_transformation lines 133-153: the statement that follows.
StageAfter(s) ==
    CASE s = "t_load" -> "pitch"
      [] s = "pitch" -> "spectral"
      [] s = "spectral" -> "formant"
      [] s = "formant" -> "texture"
      [] s = "texture" -> "dynamics"
      [] s = "dynamics" -> "enhance"
      [] s = "enhance" -> "save_tmp"

\* One stage has run: base_audio is rebound to what it returned.
StageDone(name, r) ==
    /\ heap' = r.heap
    /\ cur' = r.buf
    /\ trace' = Append(trace, [stage |-> name, exc |-> r.exc,
                               inBuf |-> cur, inWave |-> heap[cur],
                               outBuf |-> r.buf, outWave |-> r.heap[r.buf],
                               inAfter |-> r.heap[cur]])
    /\ pc' = StageAfter(name)
    /\ UNCHANGED <<engineVars, callVars, countVars, fileVars, baseKind, target,
                   result, error, loaded, extracted, asideVars>>

\* clone_voice's except clause (lines 420-422).
CloneFailed == Return("None", "cloning")

\* Line 400 and line 133: the transformation is given self.reference_features
\* and decodes the base file.  If decoding raises, the except clause of
\* apply_voice_transformation (155-159) decodes again.
LoadBaseAudio ==
    /\ pc = "t_load"
    /\ target' = reference_features
    /\ \E ok \in BOOLEAN :
         IF ok
           THEN /\ \E k \in BaseKinds : baseKind' = k
                /\ heap' = NewBuffer(<<>>, <<"base">>)
                /\ cur' = 1
                /\ pc' = StageAfter("t_load")
                /\ decode' = "ok"
           ELSE /\ pc' = "t_reload"
                /\ decode' = "retry"
                /\ UNCHANGED <<baseKind, heap, cur>>
    /\ UNCHANGED <<engineVars, callVars, countVars, fs, ioFailed, baseMade, outMade,
                   trace, result, error, loaded, extracted, asideVars>>

\* Lines 155-159: decode the base file again and return it as it is; an
\* exception here leaves apply_voice_transformation and is caught by
\* clone_voice (420-422).
ReloadBaseAudio ==
    /\ pc = "t_reload"
    /\ \E ok \in BOOLEAN :
         IF ok
           THEN /\ \E k \in BaseKinds : baseKind' = k
                /\ heap' = NewBuffer(<<>>, <<"base">>)
                /\ cur' = 1
                /\ pc' = "save_tmp"
                /\ UNCHANGED <<result, error>>
                /\ decode' = "retry_ok"
                /\ UNCHANGED ioFailed
           ELSE /\ CloneFailed
                /\ decode' = "failed"
                /\ ioFailed' = TRUE
                /\ UNCHANGED <<baseKind, heap, cur>>
    /\ UNCHANGED <<engineVars, callVars, countVars, fs, baseMade, outMade, target,
                   trace, loaded, extracted, asideVars>>

PitchStep ==
    /\ pc = "pitch"
    /\ \E f \in PitchFaults :
         StageDone("pitch", ApplyPitchTransformation(heap, cur, target, baseKind, f))

SpectralStep ==
    /\ pc = "spectral"
    /\ \E f \in SpectralFaults :
         StageDone("spectral", ModifySpectralEnvelope(heap, cur, target, baseKind, f))

FormantStep ==
    /\ pc = "formant"
    /\ \E f \in FormantFaults :
         StageDone("formant", ApplyFormantShifting(heap, cur, target, baseKind, f))

TextureStep ==
    /\ pc = "texture"
    /\ \E f \in TextureFaults :
         StageDone("texture", AdjustVoiceTexture(heap, cur, target, baseKind, f))

DynamicsStep ==
    /\ pc = "dynamics"
    /\ \E f \in DynamicsFaults :
         StageDone("dynamics", MatchVoiceDynamics(heap, cur, target, baseKind, f))

EnhanceStep ==
    /\ pc = "enhance"
    /\ \E f \in EnhanceFaults :
         StageDone("enhance", EnhanceVoiceQuality(heap, cur, baseKind, f))

\* Lines 404-405: the output temp file is created (delete=False) and closed.
CreateOutputFile ==
    /\ pc = "save_tmp"
    /\ \E ok \in BOOLEAN :
         IF ok
           THEN /\ fs' = [f \in DOMAIN fs \cup {"out"} |->
                            IF f = "out" THEN File("empty", <<>>) ELSE fs[f]]
                /\ outMade' = TRUE
                /\ pc' = "write"
                /\ UNCHANGED <<ioFailed, result, error>>
           ELSE /\ CloneFailed
                /\ ioFailed' = TRUE
                /\ UNCHANGED <<fs, outMade>>
    /\ UNCHANGED <<engineVars, callVars, waveVars, countVars, decode, baseMade, loaded,
                   extracted, asideVars>>

WriteOutcomes == {"ok", "raise_empty", "raise_partial"}

\* Line 407: sf.write; when it raises, clone_voice's except clause (420-422)
\* runs and the output file stays as the write left it.
WriteOutput ==
    /\ pc = "write"
    /\ \E o \in WriteOutcomes :
         CASE o = "ok" ->
                /\ fs' = [fs EXCEPT !["out"] = File("audio", heap[cur])]
                /\ pc' = "unlink"
                /\ UNCHANGED <<ioFailed, result, error>>
           [] o = "raise_empty" ->
                /\ CloneFailed
                /\ ioFailed' = TRUE
                /\ UNCHANGED fs
           [] o = "raise_partial" ->
                /\ CloneFailed
                /\ ioFailed' = TRUE
                /\ fs' = [fs EXCEPT !["out"] = File("partial", heap[cur])]
    /\ UNCHANGED <<engineVars, callVars, waveVars, countVars, decode, baseMade, outMade,
                   loaded, extracted, asideVars>>

\* A mutant of AfterUnlink: no try/except around os.unlink, so that its
\* exception reaches clone_voice's except clause.
AfterUnlinkUnguarded(removed) == IF removed THEN "output" ELSE "None"

\* Lines 410-418: an exception of os.unlink is passed over; the output path
\* is returned either way.
AfterUnlink(removed) == "output"

\* Lines 409-418: the base file is unlinked and the output path is returned.
UnlinkBaseAndReturn ==
    /\ pc = "unlink"
    /\ \E removed \in BOOLEAN :
         /\ fs' = IF removed THEN [f \in DOMAIN fs \ {"base"} |-> fs[f]] ELSE fs
         /\ Return(AfterUnlink(removed),
                   IF AfterUnlink(removed) = "output" THEN "none" ELSE "cloning")
    /\ UNCHANGED <<engineVars, callVars, waveVars, countVars, ioFailed, decode, baseMade,
                   outMade, loaded, extracted, asideVars>>

Next ==
    \/ LoadReferenceVoice
    \/ ScoreVoices
    \/ CloneVoice
    \/ CheckCache
    \/ LoadReference
    \/ SynthesizeBaseSpeech
    \/ LoadBaseAudio
    \/ ReloadBaseAudio
    \/ PitchStep
    \/ SpectralStep
    \/ FormantStep
    \/ TextureStep
    \/ DynamicsStep
    \/ EnhanceStep
    \/ CreateOutputFile
    \/ WriteOutput
    \/ UnlinkBaseAndReturn

Spec == Init /\ [][Next]_vars

\* ================================================================= claims
\* The order of the steps as the specification gives it.
Pipeline == <<"pitch", "spectral", "formant", "texture", "dynamics", "enhance">>

StageNames(tr) == [i \in 1..Len(tr) |-> tr[i].stage]

IsPrefix(a, b) == Len(a) <= Len(b) /\ a = SubSeq(b, 1, Len(a))

\* The first step is given the decoded base waveform, every later step
\* exactly what the step before it returned.
Chained(tr) ==
    \A i \in 1..Len(tr) :
        IF i = 1
          THEN tr[i].inBuf = 1 /\ tr[i].inWave = <<"base">>
          ELSE tr[i].inBuf = tr[i-1].outBuf /\ tr[i].inWave = tr[i-1].outWave

InCloneVoice == op = "clone_voice"

\* apply_voice_transformation was called and has ended (returned or raised).
TransformationOver ==
    /\ InCloneVoice
    /\ decode # "none"
    /\ pc \in {"save_tmp", "write", "unlink", "idle"}

\* A clone_voice call whose text passed the emptiness check.
ValidClone == InCloneVoice /\ ~text.isNone /\ \E i \in 1..Len(text.s) : text.s[i] # " "

CloneReturned == InCloneVoice /\ pc = "idle"

\* C1 as stated: in every run of apply_voice_transformation each of the six
\* steps runs exactly once, in the fixed order, each on the waveform the step
\* before it returned.
C1_EveryRunRunsAllSteps ==
    TransformationOver => StageNames(trace) = Pipeline /\ Chained(trace)

\* C1, amended: the steps that have run are always an initial part of the
\* fixed order, each given what the step before returned (the first the
\* decoded base waveform); a run whose first decoding of the base file
\* succeeded has run all six exactly once, the enhancer last; a run whose
\* first decoding failed has run none.
C1_StepsInOrderWhenDecoded ==
    /\ IsPrefix(StageNames(trace), Pipeline)
    /\ Chained(trace)
    /\ (TransformationOver /\ decode = "ok") => StageNames(trace) = Pipeline
    /\ (TransformationOver /\ decode # "ok") => trace = <<>>

\* C1's case: a run that went through all six steps, some of which changed
\* the waveform.
C1_Witness ==
    /\ TransformationOver
    /\ decode = "ok"
    /\ Len(trace) = 6
    /\ trace[6].stage = "enhance"
    /\ trace[2].outWave # trace[2].inWave
    /\ trace[6].inWave = trace[5].outWave

\* C2 as stated: a stage that went through its except clause returns the
\* waveform it was given, sample for sample.
C2_IdentityFallback ==
    \A i \in 1..Len(trace) : trace[i].exc => trace[i].outWave = trace[i].inWave

\* C3 as stated: a clone_voice call in which the synthesizer returned a base
\* file ends in Done, whatever fails afterwards.
C3_DoneIfSynthesized ==
    (CloneReturned /\ synthOutcome = "ok") => result = "output"

\* C3, amended: a clone_voice call in which the synthesizer returned a base
\* file ends in Done whatever fails inside the stages, the enhancer or the
\* removal of the base file, provided the base file is decoded (at the first
\* or the second attempt) and the output file is created and written; if one
\* of these fails it ends in Error.
C3_DoneUnlessIoFails ==
    (CloneReturned /\ synthOutcome = "ok") =>
        /\ ~ioFailed => result = "output"
        /\ ioFailed => result = "None"

\* C3's case: every stage and the enhancer failed, and the call ended in Done.
C3_Witness ==
    /\ CloneReturned
    /\ synthOutcome = "ok"
    /\ Len(trace) = 6
    /\ \A i \in 1..6 : trace[i].exc
    /\ result = "output"

\* Both ways of loading a reference.
LoadOps == {"clone_voice", "load_reference_voice"}

C5_CacheInvalidated ==
    (ValidClone /\ refPath # entryLast) =>
        /\ pc \notin {"cache", "load"} => nExtract = 1
        /\ decode # "none" => target = ExtractFeatures(refPath)
        /\ trace # <<>> => target = ExtractFeatures(refPath)
        /\ (pc = "idle" /\ decode = "none") => result = "None"

\* C5's case: features of another reference were cached, and the stages ran.
C5_Witness ==
    /\ ValidClone
    /\ refPath # entryLast
    /\ entryLast # NoneVal
    /\ entryFeatures # NoFeatures
    /\ entryFeatures.src # refPath
    /\ Len(trace) = 6
    /\ target.src = refPath

\* C6: clone_voice with empty or whitespace-only text returns None at once,
\* reporting the empty input: no extraction, no synthesizer call, no temp
\* file, no stage, and the reference cache as it was.
C6_EmptyTextRejected ==
    (InCloneVoice /\ ~text.isNone /\ \A i \in 1..Len(text.s) : text.s[i] = " ") =>
        /\ pc = "idle"
        /\ result = "None"
        /\ error = "empty"
        /\ nExtract = 0
        /\ nSynth = 0
        /\ nEngine = 0
        /\ fs = NoFiles
        /\ ~baseMade
        /\ ~outMade
        /\ trace = <<>>
        /\ reference_features = entryFeatures
        /\ last_reference_path = entryLast

\* C6's case: whitespace-only text given to an engine with a cached reference.
C6_Witness ==
    /\ InCloneVoice
    /\ text = [isNone |-> FALSE, s |-> <<" ", " ">>]
    /\ entryFeatures # NoFeatures
    /\ pc = "idle"
    /\ result = "None"

\* C7 as stated: when clone_voice has returned, Done or Error, the base temp
\* file made by synthesize_base_speech in that call no longer exists.
C7_BaseFileReleased ==
    (CloneReturned /\ result \in {"output", "None"}) => "base" \notin DOMAIN fs

\* C8 as stated: when clone_voice has returned None, no output temp file made
\* by that call exists.
C8_NoOutputLeftOnError ==
    (CloneReturned /\ result = "None") => "out" \notin DOMAIN fs

\* C9 as stated: no exception leaves clone_voice, whatever the text is.
C9_NeverRaises ==
    InCloneVoice => result # "raised"

\* C10: when base synthesis fails (engine unavailable, an exception, a
\* missing or an empty file) the clone_voice call returns None reporting it,
\* having called synthesize_base_speech once and run the engine at most once;
\* no stage has run and no output file was made.
C10_SynthesisFailureIsFatal ==
    (InCloneVoice /\ synthOutcome \notin {"none", "ok"}) =>
        /\ pc = "idle"
        /\ result = "None"
        /\ error = "synthesize"
        /\ nSynth = 1
        /\ nEngine <= 1
        /\ decode = "none"
        /\ trace = <<>>
        /\ ~outMade
        /\ "out" \notin DOMAIN fs

\* C10's case: the engine ran and left an empty file.
C10_Witness ==
    /\ CloneReturned
    /\ synthOutcome = "empty"
    /\ nEngine = 1
    /\ result = "None"

\* C11: when the extraction of a reference fails, load_reference_voice
\* returns False and stores nothing: the cached features and the cached
\* identifier are what they were when the call started; a clone_voice call
\* that needed the load returns None reporting the failed analysis, without
\* calling the synthesizer or running a stage.
C11_FailedLoadKeepsCache ==
    (op \in LoadOps /\ nExtract = 1 /\ ~extracted) =>
        /\ pc = "idle"
        /\ reference_features = entryFeatures
        /\ last_reference_path = entryLast
        /\ ~loaded
        /\ op = "load_reference_voice" => result = "False"
        /\ op = "clone_voice" =>
             /\ result = "None"
             /\ error = "analyze"
             /\ nSynth = 0
             /\ nEngine = 0
             /\ trace = <<>>
             /\ fs = NoFiles

\* C11's case: a clone_voice call for another reference than the cached one,
\* whose extraction failed.
C11_Witness ==
    /\ InCloneVoice
    /\ nExtract = 1
    /\ ~extracted
    /\ entryFeatures # NoFeatures
    /\ entryLast # NoneVal
    /\ entryLast # refPath
    /\ result = "None"

\* ============================================ the numeric functions alone
\* The numeric parts of the engine are applied on their own to inputs drawn
\* from bounded sets: one application per behaviour of PureSpec.  A number is
\* a float whose value is an exact fraction n/d (d > 0, in lowest terms), or
\* NaN.

\* Largest level (in tenths) and largest frequency (in units of 50 Hz) drawn.
MaxLevel == 10

\* Longest sample sequence drawn.
MaxLen == 2

Abs(x) == IF x < 0 THEN -x ELSE x

RECURSIVE Gcd(_, _)
Gcd(a, b) == IF b = 0 THEN a ELSE Gcd(b, a % b)

\* The float n/d.
Q(n, d) ==
    LET g == Gcd(Abs(n), Abs(d))
        sg == IF d < 0 THEN -1 ELSE 1
    IN  [d |-> Abs(d) \div g, n |-> sg * (n \div g), nan |-> FALSE]

NaN == [d |-> 1, n |-> 0, nan |-> TRUE]

Zero == Q(0, 1)

FAdd(a, b) == IF a.nan \/ b.nan THEN NaN ELSE Q(a.n * b.d + b.n * a.d, a.d * b.d)

FSub(a, b) == IF a.nan \/ b.nan THEN NaN ELSE Q(a.n * b.d - b.n * a.d, a.d * b.d)

FMul(a, b) == IF a.nan \/ b.nan THEN NaN ELSE Q(a.n * b.n, a.d * b.d)

\* IEEE division with the warnings ignored (line 12): 0/0 is NaN.  A nonzero
\* number is never divided by zero in the code modelled here.
FDiv(a, b) == IF a.nan \/ b.nan \/ b.n = 0 THEN NaN ELSE Q(a.n * b.d, a.d * b.n)

FAbs(a) == IF a.nan THEN NaN ELSE Q(Abs(a.n), a.d)

\* Comparisons: every comparison with NaN is false.
FLt(a, b) == ~a.nan /\ ~b.nan /\ a.n * b.d < b.n * a.d

FGt(a, b) == FLt(b, a)

FLe(a, b) == ~a.nan /\ ~b.nan /\ a.n * b.d <= b.n * a.d

\* np.isnan
np_isnan(a) == a.nan

\* The natural number whose square is n, for a perfect square n.
ISqrt(n) == CHOOSE k \in 0..n : k * k = n

\* np.sqrt, exact on the squares of fractions (the inputs drawn keep every
\* argument one); NaN for NaN and for negative numbers.
np_sqrt(a) == IF a.nan \/ a.n < 0 THEN NaN ELSE Q(ISqrt(a.n), ISqrt(a.d))

\* A mutant of np_clip: the upper limit is not applied.
np_clip_lower_only(x, lo, hi) == IF x.nan THEN NaN ELSE IF FLt(x, lo) THEN lo ELSE x

\* np.clip(x, lo, hi)
np_clip(x, lo, hi) ==
    IF x.nan THEN NaN ELSE IF FLt(x, lo) THEN lo ELSE IF FGt(x, hi) THEN hi ELSE x

RECURSIVE SumSeq(_)
SumSeq(xs) == IF xs = <<>> THEN Zero ELSE FAdd(Head(xs), SumSeq(Tail(xs)))

\* np.mean: NaN for an empty array (the warning is ignored).
np_mean(xs) == IF xs = <<>> THEN NaN ELSE FDiv(SumSeq(xs), Q(Len(xs), 1))

Squares(xs) == [i \in 1..Len(xs) |-> FMul(xs[i], xs[i])]

Scaled(xs, k) == [i \in 1..Len(xs) |-> FMul(xs[i], k)]

\* The limits of the three ratios (lines 178, 315, 255).
PitchLo == Q(1, 2)
PitchHi == Q(2, 1)
CentroidLo == Q(4, 5)
CentroidHi == Q(6, 5)
EnergyLo == Q(3, 10)
EnergyHi == Q(3, 1)

\* The level the RMS is normalised to (line 262).
RmsTarget == Q(1, 10)

Skipped == [applied |-> FALSE, ratio |-> NaN]

Applied(r) == [applied |-> TRUE, ratio |-> r]

\* apply_pitch_transformation lines 164-178: the ratio the pitch shift is
\* made with, given target_features['f0_mean'] and the mean pitch of the
\* voiced frames of the audio; Skipped where the audio is returned as it is.
pitch_ratio(target_f0, current_f0_mean) ==
    IF np_isnan(target_f0) THEN Skipped
    ELSE IF np_isnan(current_f0_mean) \/ FLe(current_f0_mean, Zero) THEN Skipped
    ELSE Applied(np_clip(FDiv(target_f0, current_f0_mean), PitchLo, PitchHi))

\* modify_spectral_envelope lines 310-315: the ratio the magnitudes are
\* reshaped with.
centroid_ratio(target_centroid, current_centroid) ==
    IF FGt(current_centroid, Zero) /\ FGt(target_centroid, Zero)
      THEN Applied(np_clip(FDiv(target_centroid, current_centroid), CentroidLo, CentroidHi))
      ELSE Skipped

\* match_voice_dynamics lines 250-255: the amplitude ratio.
energy_ratio(target_energy, current_energy) ==
    IF FGt(current_energy, Zero) /\ FGt(target_energy, Zero)
      THEN Applied(np_clip(np_sqrt(FDiv(target_energy, current_energy)), EnergyLo, EnergyHi))
      ELSE Skipped

\* match_voice_dynamics lines 249-264 on samples, no exception raised: the
\* gain, then the normalisation of the RMS level to 0.1 when it is positive.
match_voice_dynamics(audio, target_energy) ==
    LET r == energy_ratio(target_energy, np_mean(Squares(audio)))
        gained == IF r.applied THEN Scaled(audio, r.ratio) ELSE audio
        audio_rms == np_sqrt(np_mean(Squares(gained)))
    IN  IF FGt(audio_rms, Zero)
          THEN Scaled(Scaled(gained, FDiv(Q(1, 1), audio_rms)), RmsTarget)
          ELSE gained

\* Levels in tenths; frequencies in units of 50 Hz.
Levels == {Q(k, 10) : k \in 0..MaxLevel}

Frequencies == {Q(50 * k, 1) : k \in 0..MaxLevel}

\* A feature as a caller may pass it: a level or frequency, a negative
\* number, or NaN.
Undefined == {NaN, Q(-1, 1)}

\* Square waves: every sample is +a or -a, so that the RMS is exactly a.
SquareWaves ==
    UNION {UNION {[1..n -> {a, FSub(Zero, a)}] : n \in 0..MaxLen} : a \in Levels}

Energies == {FMul(a, a) : a \in Levels} \cup Undefined

Apply(f, a, o) ==
    /\ fn' = f
    /\ args' = a
    /\ out' = o
    /\ UNCHANGED <<engineState, threadVars, recorderVars>>

PitchRatio ==
    \E t \in Frequencies \cup Undefined, c \in Frequencies \cup Undefined :
        /\ fn = "none"
        /\ Apply("pitch_ratio", [target |-> t, current |-> c], pitch_ratio(t, c))

CentroidRatio ==
    \E t \in Frequencies \cup Undefined, c \in Frequencies \cup Undefined :
        /\ fn = "none"
        /\ Apply("centroid_ratio", [target |-> t, current |-> c], centroid_ratio(t, c))

EnergyRatio ==
    \E t \in Energies, c \in Energies \ Undefined :
        /\ fn = "none"
        /\ Apply("energy_ratio", [target |-> t, current |-> c], energy_ratio(t, c))

DynamicsOnSamples ==
    \E x \in SquareWaves, t \in Energies :
        /\ fn = "none"
        /\ Apply("match_voice_dynamics", [audio |-> x, target |-> t],
                  match_voice_dynamics(x, t))

PureNext ==
    \/ DynamicsOnSamples
    \/ PitchRatio
    \/ CentroidRatio
    \/ EnergyRatio

PureSpec == Init /\ [][PureNext]_vars

\* A target feature that is undefined (NaN) or not positive.
NotPositive(x) == x.nan \/ FLe(x, Zero)

\* C12 as stated (P1), for the stages computed on numbers: with a target
\* f0_mean, centroid or energy that is undefined or not positive, the pitch
\* stage and the envelope stage apply no ratio and the dynamics stage returns
\* the very samples it was given.
C12_NoOpOnUndefinedTarget ==
    /\ (fn = "pitch_ratio" /\ NotPositive(args.target)) => ~out.applied
    /\ (fn = "centroid_ratio" /\ NotPositive(args.target)) => ~out.applied
    /\ (fn = "match_voice_dynamics" /\ NotPositive(args.target)) => out = args.audio

InRange(x, lo, hi) == FLe(lo, x) /\ FLe(x, hi)

\* C13 (P2): a ratio that is applied lies within its clamp: the pitch ratio
\* in [0.5, 2.0], the centroid ratio in [0.8, 1.2], the amplitude ratio of the
\* energy matching in [0.3, 3.0].
C13_RatiosClamped ==
    /\ (fn = "pitch_ratio" /\ out.applied) => InRange(out.ratio, Q(1, 2), Q(2, 1))
    /\ (fn = "centroid_ratio" /\ out.applied) => InRange(out.ratio, Q(4, 5), Q(6, 5))
    /\ (fn = "energy_ratio" /\ out.applied) => InRange(out.ratio, Q(3, 10), Q(3, 1))

\* C13's case: a target pitch ten times the pitch of the base is applied
\* with the ratio 2.
C13_Witness ==
    /\ fn = "pitch_ratio"
    /\ args.target = Q(500, 1)
    /\ args.current = Q(50, 1)
    /\ out.applied
    /\ out.ratio = Q(2, 1)

\* ===================================================== estimate_formants
\* The waveform is given by its length and by the positive half of its power
\* spectrum, power[: len // 2] of |fft(audio)| ** 2 (lines 75-81): bin k
\* (counted from 0) is element k + 1 of the sequence and lies at k * sr / len
\* Hz.  The spectrum of an all-zero waveform is all zero.

\* Longest waveform drawn, in samples.
MaxSamples == 14

\* Largest power drawn for a bin.
MaxPower == 10

\* Largest n_formants drawn; the extractor calls with the default, 4.
MaxFormants == 4

\* The sample rate the extractor loads with (line 35).
sr == 22050

Powers == {0, 1, 5, MaxPower}

\* The return value of the except branch (line 97).
DefaultFormants == <<Q(500, 1), Q(1500, 1), Q(2500, 1), Q(3500, 1)>>

RECURSIVE MaxOf(_)
MaxOf(S) ==
    LET x == CHOOSE y \in S : TRUE
    IN  IF S = {x} THEN x ELSE LET m == MaxOf(S \ {x}) IN IF x > m THEN x ELSE m

\* np.max of a non-empty array.
np_max(x) == MaxOf({x[i] : i \in 1..Len(x)})

\* scipy's local maxima: a sample, or the middle (rounded down) of a run of
\* equal samples, whose neighbours on both sides are strictly lower; the
\* first and the last sample are never peaks.
LocalMaxima(x) ==
    {(l + r) \div 2 :
        <<l, r>> \in {lr \in (2..Len(x) - 1) \X (2..Len(x) - 1) :
                        /\ lr[1] <= lr[2]
                        /\ \A i \in lr[1]..lr[2] : x[i] = x[lr[1]]
                        /\ x[lr[1] - 1] < x[lr[1]]
                        /\ x[lr[2] + 1] < x[lr[2]]}}

\* find_peaks(x, height = tenth_of * 0.1): the local maxima whose value is
\* at least the height (line 84).
find_peaks(x, tenth_of) == {p \in LocalMaxima(x) : 10 * x[p] >= tenth_of}

RECURSIVE Ascending(_)
Ascending(S) ==
    IF S = {} THEN <<>>
    ELSE LET m == CHOOSE y \in S : \A z \in S : y <= z
         IN  <<m>> \o Ascending(S \ {m})

\* A mutant of TopPeaks: the sort is not reversed, so that the peaks of
\* lowest power are kept.
LowestPeaks(x, peaks, n) ==
    {S \in SUBSET peaks :
        /\ Cardinality(S) = IF Cardinality(peaks) < n THEN Cardinality(peaks) ELSE n
        /\ \A p \in S, q \in peaks \ S : x[p] <= x[q]}

\* np.argsort(peak_powers)[::-1][:n] (lines 91-92): n peaks of highest power,
\* or all of them when there are fewer; which of several peaks of equal
\* power are kept is up to the sort.
TopPeaks(x, peaks, n) ==
    {S \in SUBSET peaks :
        /\ Cardinality(S) = IF Cardinality(peaks) < n THEN Cardinality(peaks) ELSE n
        /\ \A p \in S, q \in peaks \ S : x[p] >= x[q]}

\* positive_freqs[peaks], sorted (lines 87, 94).
PeakFreqs(S, samples) ==
    LET bins == Ascending(S)
    IN  [i \in 1..Len(bins) |-> Q((bins[i] - 1) * sr, samples)]

\* estimate_formants(audio, sr, n_formants): the lists the call may return.
\* No bin (a waveform of 0 or 1 samples) makes np.max raise, and the except
\* branch returns the default; anything else returns the peaks found.
estimate_formants(samples, positive_power, n_formants) ==
    IF Len(positive_power) = 0 THEN {DefaultFormants}
    ELSE LET peaks == find_peaks(positive_power, np_max(positive_power))
         IN  {PeakFreqs(S, samples) : S \in TopPeaks(positive_power, peaks, n_formants)}

EstimateFormants ==
    /\ fn = "none"
    /\ \E length \in 0..MaxSamples, count \in 1..MaxFormants :
         \E power \in [1..(length \div 2) -> Powers] :
           \E formants \in estimate_formants(length, power, count) :
               Apply("estimate_formants",
                     [samples |-> length, power |-> power, n_formants |-> count],
                     formants)

FormantNext == EstimateFormants

FormantSpec == Init /\ [][FormantNext]_vars

\* The qualifying peaks of the spectrum a call was made with.
QualifyingPeaks == find_peaks(args.power, np_max(args.power))

\* C14 as stated (P3): for an all-zero waveform of at least one sample,
\* estimate_formants returns 500, 1500, 2500, 3500 Hz.
C14_SilenceGivesDefaultFormants ==
    (/\ fn = "estimate_formants"
     /\ args.samples >= 1
     /\ \A k \in 1..Len(args.power) : args.power[k] = 0)
    => out = DefaultFormants

\* C15 as stated: whenever estimate_formants finds fewer than n_formants
\* qualifying peaks (none included), it returns 500, 1500, 2500, 3500 Hz.
C15_TooFewPeaksGiveDefaultFormants ==
    (/\ fn = "estimate_formants"
     /\ Len(args.power) > 0
     /\ Cardinality(QualifyingPeaks) < args.n_formants)
    => out = DefaultFormants

\* ================================================== enhance_voice_quality
\* The enhancer on samples.  What the low-pass filter makes of the samples
\* is not computed: filtfilt returns some waveform of the same length (all
\* zero for an all-zero input, the filter being linear), or raises for a
\* waveform too short to be padded.

\* Longest waveform the enhancer is applied to, in samples.
MaxEnhanced == 17

\* filtfilt's default padlen, 3 * max(len(a), len(b)), for the five
\* coefficients of the 4th-order filter of line 275: a waveform must be
\* longer than this.
padlen == 15

\* The compressor (lines 279-280) and the peak the output is normalised to
\* (line 291).
threshold == Q(1, 10)
ratio == Q(3, 1)
PeakTarget == Q(4, 5)

Shapes == {"constant", "alternating"}

\* A waveform of the given length whose samples are all a, or a and -a in
\* turn.
Wave(length, a, shape) ==
    [i \in 1..length |->
        IF shape = "alternating" /\ i % 2 = 0 THEN FSub(Zero, a) ELSE a]

Waves(length) == {Wave(length, a, shape) : a \in Levels, shape \in Shapes}

IsSilent(audio) == \A i \in 1..Len(audio) : audio[i] = Zero

np_sign(x) == IF x.nan THEN NaN ELSE Q(IF x.n > 0 THEN 1 ELSE IF x.n < 0 THEN -1 ELSE 0, 1)

\* A mutant of compress: the sign is not put back.
compress_magnitude(x) ==
    IF FGt(FAbs(x), threshold)
      THEN FAdd(threshold, FDiv(FSub(FAbs(x), threshold), ratio))
      ELSE x

\* np.where(audio_abs > threshold, sign * (threshold + (audio_abs -
\* threshold) / ratio), audio) for one sample (lines 281-286).
compress(x) ==
    IF FGt(FAbs(x), threshold)
      THEN FMul(np_sign(x), FAdd(threshold, FDiv(FSub(FAbs(x), threshold), ratio)))
      ELSE x

RECURSIVE FMaxOf(_)
FMaxOf(S) ==
    LET x == CHOOSE y \in S : TRUE
    IN  IF S = {x} THEN x ELSE LET m == FMaxOf(S \ {x}) IN IF FGt(x, m) THEN x ELSE m

\* np.max(np.abs(audio)) of a non-empty waveform without NaN.
peak(audio) == FMaxOf({FAbs(audio[i]) : i \in 1..Len(audio)})

\* What filtfilt may do with the waveform (line 276).
filtfilt(audio) ==
    IF Len(audio) <= padlen THEN {[raised |-> TRUE, y |-> <<>>]}
    ELSE {[raised |-> FALSE, y |-> y] :
            y \in IF IsSilent(audio) THEN {audio} ELSE Waves(Len(audio))}

\* enhance_voice_quality lines 271-296, given what filtfilt did: the input
\* as it is when filtfilt raised; else the filtered samples compressed and,
\* unless they are all zero, scaled to the peak 0.8.
enhance_voice_quality(audio, filtered) ==
    IF filtered.raised THEN audio
    ELSE LET compressed_audio == [i \in 1..Len(filtered.y) |-> compress(filtered.y[i])]
             max_val == peak(compressed_audio)
         IN  IF FGt(max_val, Zero)
               THEN Scaled(Scaled(compressed_audio, FDiv(Q(1, 1), max_val)), PeakTarget)
               ELSE compressed_audio

EnhanceOnSamples ==
    \E length \in 0..MaxEnhanced :
      \E audio \in Waves(length) :
        \E filtered \in filtfilt(audio) :
            /\ fn = "none"
            /\ Apply("enhance_voice_quality", [audio |-> audio, filtered |-> filtered],
                     enhance_voice_quality(audio, filtered))

\* Samples in twentieths, of either sign.
SignedSamples == {Q(k, 20) : k \in -2 * MaxLevel .. 2 * MaxLevel}

\* Lines 281-286 on a filtered waveform of two samples.
CompressSamples ==
    /\ fn = "none"
    /\ \E x \in SignedSamples, y \in SignedSamples :
         Apply("compress", [audio |-> <<x, y>>], <<compress(x), compress(y)>>)

EnhanceNext ==
    \/ EnhanceOnSamples
    \/ CompressSamples

EnhanceSpec == Init /\ [][EnhanceNext]_vars

\* C16 as stated (P4): the peak absolute amplitude of what the enhancer
\* returns for a waveform of at least one sample is at most 0.8, whether the
\* filter step failed or not.
C16_PeakAtMostPointEight ==
    (fn = "enhance_voice_quality" /\ Len(out) > 0) => FLe(peak(out), Q(4, 5))

\* ============================================= get_voice_similarity_score
\* The score on numbers.  An audio file is given by what
\* extract_voice_features makes of it: no features (the extraction raised
\* and returned None), or a mean pitch, which is NaN when no frame is
\* voiced, and a mean spectral centroid, which is 0 for silence.

\* Largest mean pitch (in units of 50 Hz) and centroid (in units of 500 Hz)
\* drawn.
MaxTone == 4

PitchMeans == {Q(50 * k, 1) : k \in 1..MaxTone} \cup {NaN}

CentroidMeans == {Q(500 * k, 1) : k \in 0..MaxTone}

Extractions ==
    {[ok |-> FALSE, f0_mean |-> NaN, spectral_centroid_mean |-> NaN]}
    \cup {[ok |-> TRUE, f0_mean |-> f, spectral_centroid_mean |-> c] :
            f \in PitchMeans, c \in CentroidMeans}

\* Python's max(a, b) and min(a, b): the first argument unless the second
\* compares greater (smaller); a comparison with NaN is false.
py_max(a, b) == IF FGt(b, a) THEN b ELSE a

\* A mutant of py_min: NaN is passed on.
py_min_of_numpy(a, b) == IF a.nan \/ b.nan THEN NaN ELSE IF FLt(b, a) THEN b ELSE a

py_min(a, b) == IF FLt(b, a) THEN b ELSE a

\* A mutant of feature_similarity: the difference is taken relative to the
\* reference alone.
feature_similarity_to_ref(ref, cloned) ==
    FSub(Q(1, 1), FDiv(FAbs(FSub(ref, cloned)), ref))

\* 1.0 - abs(ref - cloned) / max(ref, cloned) (lines 435, 436).
feature_similarity(ref, cloned) ==
    FSub(Q(1, 1), FDiv(FAbs(FSub(ref, cloned)), py_max(ref, cloned)))

\* A mutant of failure_score.
failure_score_one == Q(1, 1)

\* The score returned when an extraction failed (line 432).
failure_score == Zero

\* get_voice_similarity_score lines 426-440; nothing in them raises, the
\* features being numpy floats.
get_voice_similarity_score(cloned_features, ref_features) ==
    IF ~ref_features.ok \/ ~cloned_features.ok THEN failure_score
    ELSE LET pitch_similarity ==
                 feature_similarity(ref_features.f0_mean, cloned_features.f0_mean)
             spectral_similarity ==
                 feature_similarity(ref_features.spectral_centroid_mean,
                                    cloned_features.spectral_centroid_mean)
             similarity == FDiv(FAdd(pitch_similarity, spectral_similarity), Q(2, 1))
         IN  py_max(Zero, py_min(Q(1, 1), similarity))

GetVoiceSimilarityScore ==
    \E cloned \in Extractions, ref \in Extractions :
        /\ fn = "none"
        /\ Apply("get_voice_similarity_score", [ref |-> ref, cloned |-> cloned],
                 get_voice_similarity_score(cloned, ref))

SimilarityNext == GetVoiceSimilarityScore

SimilaritySpec == Init /\ [][SimilarityNext]_vars

ScoreReturned == fn = "get_voice_similarity_score"

\* C17 (P6, symmetry and bound): the score of (A, B) is the score of (B, A)
\* and lies in [0, 1], whatever the pitch means and centroids are.
C17_SymmetricAndBounded ==
    ScoreReturned =>
        /\ out = get_voice_similarity_score(args.ref, args.cloned)
        /\ InRange(out, Zero, Q(1, 1))

\* C17's case: two different audios, the reference unvoiced, the cloned one
\* voiced with a zero centroid.
C17_Witness ==
    /\ ScoreReturned
    /\ args.ref.ok /\ args.cloned.ok
    /\ np_isnan(args.ref.f0_mean) /\ ~np_isnan(args.cloned.f0_mean)
    /\ args.cloned.spectral_centroid_mean = Zero
    /\ FGt(args.ref.spectral_centroid_mean, Zero)
    /\ out = Q(1, 1)

\* C18 as stated (P6, self-similarity): the score of an audio against itself
\* is exactly 1.0, whatever the audio.
C18_SelfSimilarityIsOne ==
    (ScoreReturned /\ args.cloned = args.ref) => out = Q(1, 1)

\* C18 amended: the score of an audio against itself is exactly 1.0 when
\* its features can be extracted (silent and unvoiced audio included), and
\* 0.0 when they cannot.
C18_SelfSimilarityIsOneIfExtracted ==
    (ScoreReturned /\ args.cloned = args.ref) =>
        out = IF args.ref.ok THEN Q(1, 1) ELSE Zero

\* C18's case: a silent audio (no pitch, zero centroid) scored against
\* itself.
C18_Witness ==
    /\ ScoreReturned
    /\ args.cloned = args.ref
    /\ args.ref.ok
    /\ np_isnan(args.ref.f0_mean)
    /\ args.ref.spectral_centroid_mean = Zero
    /\ out = Q(1, 1)

\* C19: the score is 0.0 whenever the extraction failed for the cloned
\* audio, for the reference audio, or for both.
C19_ZeroOnFailedExtraction ==
    (ScoreReturned /\ (~args.cloned.ok \/ ~args.ref.ok)) => out = Zero

\* C19's case: only the cloned audio cannot be extracted.
C19_Witness ==
    /\ ScoreReturned
    /\ ~args.cloned.ok
    /\ args.ref.ok
    /\ out = Zero

\* =================================================== the silent reference
\* A waveform without the marks of the STFT/ISTFT reconstructions, which
\* reshape nothing.
WithoutReconstruction(w) == SelectSeq(w, LAMBDA o : o # "istft")

\* enhance(base waveform): what the enhancer alone makes of the decoded base
\* audio.
EnhancedBase ==
    LET r == EnhanceVoiceQuality(<< <<"base">> >>, 1, baseKind, "none")
    IN  r.heap[r.buf]

\* C20 as stated: a clone_voice that returns an output path after running
\* every stage with the features of the silent reference, no stage having
\* gone through its except clause, has written enhance(base waveform) (the
\* reconstructions counted as identity): no scaling, level normalisation or
\* spectral change has been applied before the enhancer.
C20_SilentReferenceIsEnhanceOnly ==
    (/\ CloneReturned
     /\ result = "output"
     /\ target.src = "silence"
     /\ ~target.f0_defined
     /\ StageNames(trace) = Pipeline
     /\ \A i \in 1..Len(trace) : ~trace[i].exc)
    => WithoutReconstruction(fs["out"].wave) = EnhancedBase

\* ================================================= undefined pitch means
\* The score with the pitch term left out: the spectral term alone, clamped.
ScoreWithoutPitch ==
    py_max(Zero, py_min(Q(1, 1),
        feature_similarity(args.ref.spectral_centroid_mean,
                           args.cloned.spectral_centroid_mean)))

\* C21 as stated, for the similarity score: when the mean pitch of either
\* vector is undefined the pitch term is skipped, so that the score is what
\* the spectral term alone gives.
C21_UndefinedPitchIsSkipped ==
    (/\ ScoreReturned
     /\ args.ref.ok /\ args.cloned.ok
     /\ (np_isnan(args.ref.f0_mean) \/ np_isnan(args.cloned.f0_mean)))
    => out = ScoreWithoutPitch

\* ===================================================== the order of states
\* The statements of clone_voice that belong to the transformation, and the
\* ones that follow it.
Transforming == {"t_load", "t_reload", "pitch", "spectral", "formant", "texture",
                 "dynamics", "enhance"}

Saving == {"save_tmp", "write", "unlink"}

\* C22 as stated: in every clone_voice, synthesis starts with the features of
\* the requested path loaded, the transformation starts with a base file
\* returned by the synthesis, the output is written after the enhancer has
\* run, an output path is returned after the output file was written, and
\* the call ends with the output path or with None.
C22_StateOrder ==
    InCloneVoice =>
        /\ pc = "synth" =>
              /\ reference_features # NoFeatures
              /\ last_reference_path = refPath
        /\ pc \in Transforming \cup Saving =>
              /\ synthOutcome = "ok"
              /\ baseMade
        /\ pc \in {"write", "unlink"} => "enhance" \in {trace[i].stage : i \in 1..Len(trace)}
        /\ (pc = "idle" /\ result = "output") =>
              /\ "out" \in DOMAIN fs
              /\ fs["out"].data = "audio"
        /\ pc = "idle" => result \in {"output", "None"}

\* ================================================== coherence of the cache
\* C23 as stated: whenever last_reference_path is set, the cached features
\* are the ones extracted from that path; and a clone_voice transforms with
\* the features of the reference path it was given.
C23_CacheCoherent ==
    /\ (pc = "idle" /\ last_reference_path # NoneVal) =>
           reference_features.src = last_reference_path
    /\ (InCloneVoice /\ pc \in (Transforming \ {"t_load"}) \cup Saving) =>
           target.src = refPath

\* ============================================ concurrent calls of clone_voice
\* Several threads call clone_voice, once each and with a text that is not
\* empty, on the one engine.  Nothing in clone_voice locks, so the calls
\* interleave between the statements that read or write the attributes of
\* the engine; what a call computes in between is local to it.

\* The variables only the calls followed one at a time use.
soloVars == <<pyttsx3_engine, callVars, waveVars, countVars, fileVars, pc, result, error,
              loaded, extracted>>

Running(t) == tpc[t] \notin {"idle", "done"}

\* The call ends, returning r.
TReturn(t, r) ==
    /\ tpc' = [tpc EXCEPT ![t] = "done"]
    /\ tResult' = [tResult EXCEPT ![t] = r]

\* Line 331: the call starts.
TCloneVoice(t) ==
    /\ tpc[t] = "idle"
    /\ \E p \in Paths : tRefPath' = [tRefPath EXCEPT ![t] = p]
    /\ tpc' = [tpc EXCEPT ![t] = "cache"]
    /\ overlapped' = (overlapped \/ \E u \in Threads \ {t} : Running(u))
    /\ UNCHANGED <<engineVars, soloVars, pureVars, recorderVars, tFeatures, tTarget, tResult>>

\* Line 339: the check of the cache.
TCheckCache(t) ==
    /\ tpc[t] = "cache"
    /\ tpc' = [tpc EXCEPT ![t] =
                  IF NeedsLoad(reference_features, last_reference_path, tRefPath[t])
                    THEN "extract" ELSE "synth"]
    /\ UNCHANGED <<engineVars, soloVars, pureVars, recorderVars, tRefPath, tFeatures, tTarget, tResult,
                   overlapped>>

\* Line 101: the extraction, into local variables.
TExtract(t) ==
    /\ tpc[t] = "extract"
    /\ \E ok \in BOOLEAN :
         tFeatures' = [tFeatures EXCEPT ![t] = extract_voice_features(tRefPath[t], ok)]
    /\ tpc' = [tpc EXCEPT ![t] = "store"]
    /\ UNCHANGED <<engineVars, soloVars, pureVars, recorderVars, tRefPath, tTarget, tResult, overlapped>>

\* Lines 102-107 and 341-343: the features are stored, or None is returned.
TStore(t) ==
    /\ tpc[t] = "store"
    /\ reference_features' = StoredFeatures(tFeatures[t], reference_features)
    /\ reference_audio' = StoredAudio(tFeatures[t], tRefPath[t], reference_audio)
    /\ IF LoadSucceeded(tFeatures[t])
         THEN tpc' = [tpc EXCEPT ![t] = "store_path"] /\ UNCHANGED tResult
         ELSE TReturn(t, "None")
    /\ UNCHANGED <<last_reference_path, soloVars, pureVars, recorderVars, tRefPath, tFeatures, tTarget,
                   overlapped>>

\* Line 344: the path is stored.
TStorePath(t) ==
    /\ tpc[t] = "store_path"
    /\ last_reference_path' = tRefPath[t]
    /\ tpc' = [tpc EXCEPT ![t] = "synth"]
    /\ UNCHANGED <<reference_features, reference_audio, soloVars, pureVars, recorderVars, tRefPath,
                   tFeatures, tTarget, tResult, overlapped>>

\* Lines 377-380: the base synthesis, which gives a base file or fails.
TSynthesize(t) ==
    /\ tpc[t] = "synth"
    /\ \E ok \in BOOLEAN :
         IF ok THEN tpc' = [tpc EXCEPT ![t] = "transform"] /\ UNCHANGED tResult
               ELSE TReturn(t, "None")
    /\ UNCHANGED <<engineVars, soloVars, pureVars, recorderVars, tRefPath, tFeatures, tTarget, overlapped>>

\* Lines 400-418: the transformation is given self.reference_features as it
\* is now; the output is written, or writing it fails.
TTransform(t) ==
    /\ tpc[t] = "transform"
    /\ tTarget' = [tTarget EXCEPT ![t] = reference_features]
    /\ \E ok \in BOOLEAN : TReturn(t, IF ok THEN "output" ELSE "None")
    /\ UNCHANGED <<engineVars, soloVars, pureVars, recorderVars, tRefPath, tFeatures, overlapped>>

ConcurrentNext ==
    \/ \E t \in Threads : TCloneVoice(t)
    \/ \E t \in Threads : TCheckCache(t)
    \/ \E t \in Threads : TExtract(t)
    \/ \E t \in Threads : TStore(t)
    \/ \E t \in Threads : TStorePath(t)
    \/ \E t \in Threads : TSynthesize(t)
    \/ \E t \in Threads : TTransform(t)

ConcurrentSpec == Init /\ [][ConcurrentNext]_vars

\* Thread t has run its transformation.
Transformed(t) == tTarget[t] # NoFeatures

\* C24, the serialized half: when no clone_voice starts while another is
\* running, every transformation is given the features of the reference
\* path of its own call.
C24_SerializedClonesUseOwnFeatures ==
    ~overlapped => \A t \in Threads : Transformed(t) => tTarget[t].src = tRefPath[t]

\* C24, the interleaved half: two overlapping calls with different reference
\* paths, one of which has transformed with the features of the reference
\* of the other.
C24_Witness ==
    \E t \in Threads, u \in Threads :
        /\ overlapped
        /\ tRefPath[t] # tRefPath[u]
        /\ Transformed(t)
        /\ tTarget[t].src = tRefPath[u]

\* ====================================================== in-place updates
\* C25 as stated: when a stage or the enhancer has returned, normally or
\* through its except clause, the buffer it was given holds the waveform it
\* held when the stage was called.
C25_InputBufferKept ==
    \A i \in 1..Len(trace) : trace[i].inAfter = trace[i].inWave

\* ==================================================== the formants chosen
\* The local maxima of the spectrum a call was made with whose power is
\* above a tenth of the largest power of a bin.
PeaksAboveTenth ==
    {p \in LocalMaxima(args.power) : 10 * args.power[p] > np_max(args.power)}

\* The frequency of the bin held in element p of the spectrum.
BinFrequency(p) == Q((p - 1) * sr, args.samples)

\* C26: with at least n_formants peaks above 10% of the maximum, the result
\* has n_formants frequencies in ascending order, and they are the
\* frequencies of n_formants such peaks none of which has less power than a
\* peak left out.
C26_TopPeaksAscending ==
    (/\ fn = "estimate_formants"
     /\ Len(args.power) > 0
     /\ Cardinality(PeaksAboveTenth) >= args.n_formants)
    => /\ Len(out) = args.n_formants
       /\ \A i \in 1..Len(out), j \in 1..Len(out) : i < j => FLt(out[i], out[j])
       /\ \E S \in SUBSET PeaksAboveTenth :
            /\ Cardinality(S) = args.n_formants
            /\ {out[i] : i \in 1..Len(out)} = {BinFrequency(p) : p \in S}
            /\ \A p \in S, q \in PeaksAboveTenth \ S : args.power[p] >= args.power[q]

\* C26's case: three peaks, of which the weakest comes first in frequency;
\* the two strongest are returned, the lower frequency first.
C26_Witness ==
    /\ fn = "estimate_formants"
    /\ args.samples = 14
    /\ args.power = <<0, 5, 0, 10, 0, 10, 0>>
    /\ args.n_formants = 2
    /\ out = <<Q(4725, 1), Q(7875, 1)>>

\* ========================================================= the compressor
\* What the compressor is to make of sample x: x itself up to the threshold
\* 0.1, and sign(x) * (0.1 + (|x| - 0.1) / 3) above it.
Compressed(x) ==
    IF FLe(FAbs(x), Q(1, 10)) THEN x
    ELSE FMul(np_sign(x), FAdd(Q(1, 10), FDiv(FSub(FAbs(x), Q(1, 10)), Q(3, 1))))

\* C27: each sample is mapped as stated, keeps its sign, and of two samples
\* the one that is not larger is not mapped to the larger value.
C27_CompressorMapping ==
    fn = "compress" =>
        /\ \A i \in 1..Len(out) :
              /\ out[i] = Compressed(args.audio[i])
              /\ np_sign(out[i]) = np_sign(args.audio[i])
        /\ FLe(args.audio[1], args.audio[2]) => FLe(out[1], out[2])

\* C27's case: a negative sample above the threshold in size and a positive
\* one below it.
C27_Witness ==
    /\ fn = "compress"
    /\ args.audio = <<Q(-1, 2), Q(1, 20)>>
    /\ out = <<Q(-7, 30), Q(1, 20)>>

\* ============================================ the score and the reference
ScoreCallReturned == op = "get_voice_similarity_score" /\ pc = "idle"

\* C28: a get_voice_similarity_score call leaves the cached features, the
\* cached audio and the cached path as they were when it started; and a
\* clone_voice that follows it, for the path cached with features, extracts
\* nothing.
C28_ScoreKeepsReference ==
    /\ ScoreCallReturned =>
          /\ reference_features = entryFeatures
          /\ reference_audio = entryAudio
          /\ last_reference_path = entryLast
    /\ (/\ InCloneVoice
        /\ prev.op = "get_voice_similarity_score"
        /\ entryFeatures # NoFeatures
        /\ refPath = entryLast
        /\ pc \notin {"idle", "cache"})
       => nExtract = 0 /\ loaded

\* C28's case: a clone_voice that loaded its reference, a score, and a second
\* clone_voice for the same reference that went on to synthesis from the
\* cache.
C28_Witness ==
    /\ InCloneVoice
    /\ calls = 3
    /\ prev.op = "get_voice_similarity_score"
    /\ entryFeatures # NoFeatures
    /\ entryFeatures.src = refPath
    /\ refPath = entryLast
    /\ pc = "synth"
    /\ nExtract = 0

\* ========================================================= a perfect score
\* C29 as stated: the score is 1.0 only for two vectors whose pitch means
\* are defined and equal and whose centroids are equal and not both zero.
C29_OneOnlyForEqualVoices ==
    (ScoreReturned /\ out = Q(1, 1)) =>
        /\ args.ref.ok /\ args.cloned.ok
        /\ ~np_isnan(args.ref.f0_mean) /\ ~np_isnan(args.cloned.f0_mean)
        /\ args.ref.f0_mean = args.cloned.f0_mean
        /\ args.ref.spectral_centroid_mean = args.cloned.spectral_centroid_mean
        /\ args.ref.spectral_centroid_mean # Zero

\* ============================================================ VoiceRecorder
\* src/voice_recorder.py.  The script thread calls start_recording and
\* stop_recording, one at a time and in any order; the WebRTC thread calls
\* audio_frame_callback for every frame, at any moment.  The queue is
\* thread-safe; nothing else is locked.  A frame is marked with the number of
\* the recording during which the callback found the recorder recording.

\* start_recording calls followed.
MaxRecordings == 2

\* Frames delivered to the callback.
MaxFrames == 3

\* The variables of the engine, which the recorder does not touch.
notRecorderVars == <<engineState, pureVars, threadVars>>

\* start_recording (lines 25-28)
StartRecording ==
    /\ mpc = "idle"
    /\ recordings < MaxRecordings
    /\ recordings' = recordings + 1
    /\ recording' = TRUE
    /\ audio_frames' = <<>>
    /\ rop' = "start"
    /\ UNCHANGED <<audio_queue, frames, cpc, cframe, mpc, audio_data, returned,
                   notRecorderVars>>

\* stop_recording lines 32-35: the flag is cleared and the local list made.
StopRecording ==
    /\ mpc = "idle"
    /\ rop # "none"
    /\ recording' = FALSE
    /\ audio_data' = <<>>
    /\ mpc' = "drain"
    /\ UNCHANGED <<audio_frames, audio_queue, recordings, frames, cpc, cframe, returned,
                   rop, notRecorderVars>>

\* get_nowait (line 38): the queue without its first frame.
Drained(q) == Tail(q)

\* stop_recording lines 36-47: one turn of the loop, or, the queue found
\* empty, the return of what was collected.
DrainQueue ==
    /\ mpc = "drain"
    /\ IF audio_queue # <<>>
         THEN /\ audio_data' = Append(audio_data, Head(audio_queue))
              /\ audio_queue' = Drained(audio_queue)
              /\ UNCHANGED <<mpc, returned, rop>>
         ELSE /\ returned' = audio_data
              /\ mpc' = "idle"
              /\ rop' = "stop"
              /\ UNCHANGED <<audio_data, audio_queue>>
    /\ UNCHANGED <<recording, audio_frames, recordings, frames, cpc, cframe,
                   notRecorderVars>>

\* audio_frame_callback lines 20-21: the flag is read and the frame
\* converted; with the flag off the frame is passed on (line 23).
FrameArrives ==
    /\ cpc = "idle"
    /\ frames < MaxFrames
    /\ frames' = frames + 1
    /\ IF recording
         THEN cpc' = "put" /\ cframe' = recordings
         ELSE UNCHANGED <<cpc, cframe>>
    /\ UNCHANGED <<recording, audio_frames, audio_queue, recordings, mpc, audio_data,
                   returned, rop, notRecorderVars>>

\* audio_frame_callback line 22: the frame is put into the queue.
PutFrame ==
    /\ cpc = "put"
    /\ audio_queue' = Append(audio_queue, cframe)
    /\ cpc' = "idle"
    /\ UNCHANGED <<recording, audio_frames, recordings, frames, cframe, mpc, audio_data,
                   returned, rop, notRecorderVars>>

RecorderNext ==
    \/ StartRecording
    \/ StopRecording
    \/ DrainQueue
    \/ FrameArrives
    \/ PutFrame

RecorderSpec == Init /\ [][RecorderNext]_vars

\* C30 as stated: once stop_recording has returned and until the next
\* start_recording the queue is empty, and what a stop_recording returned
\* holds frames of the recording it stopped only.
C30_QueueEmptyAfterStop ==
    (rop = "stop" /\ mpc = "idle") =>
        /\ audio_queue = <<>>
        /\ \A i \in 1..Len(returned) : returned[i] = recordings

====
